---- MODULE Spec2Model ----
(***************************************************************************)
(* Model of the dynamic SQL construction layer of jobly: the partial       *)
(* update builder (helpers/sql.js), the Job model (models/job.js) and the  *)
(* GET / handlers of routes/jobs.js and routes/companies.js, together with *)
(* the jobs table they read and write.                                     *)
(*                                                                         *)
(* JavaScript values are records [t, n, s]: t is the type tag, n the       *)
(* number (or 1/0 of a boolean), s the characters of a string.  A          *)
(* JavaScript object is the sequence of its [k, v] entries in iteration    *)
(* order.  SQL text is a sequence of tokens: literal text, a quoted        *)
(* column, or a placeholder $n.                                            *)
(***************************************************************************)
EXTENDS Integers, Sequences, FiniteSets, TLC

\* ------------------------------------------------------------ bounds

\* Salaries and employee counts range over 0..MaxNum.
MaxNum == 2
\* The jobs table holds at most MaxJobs rows.
MaxJobs == 2

\* ------------------------------------------------------ JavaScript values

Undef == [t |-> "undefined", n |-> 0, s |-> <<>>]
Null == [t |-> "null", n |-> 0, s |-> <<>>]
NaN == [t |-> "NaN", n |-> 0, s |-> <<>>]
Num(i) == [t |-> "number", n |-> i, s |-> <<>>]
Str(cs) == [t |-> "string", n |-> 0, s |-> cs]
Bool(b) == [t |-> "boolean", n |-> IF b THEN 1 ELSE 0, s |-> <<>>]

\* if (v): undefined, null, NaN, 0, "" and false are falsy.
Truthy(v) ==
    CASE v.t = "undefined" -> FALSE
      [] v.t = "null" -> FALSE
      [] v.t = "NaN" -> FALSE
      [] v.t = "number" -> v.n # 0
      [] v.t = "string" -> v.s # <<>>
      [] v.t = "boolean" -> v.n = 1
      [] OTHER -> TRUE

\* An object is a sequence of entries; Keys is Object.keys, Values is
\* Object.values, Get is property access (undefined when the key is absent).
Entry(k, v) == [k |-> k, v |-> v]
Keys(obj) == [i \in DOMAIN obj |-> obj[i].k]
Values(obj) == [i \in DOMAIN obj |-> obj[i].v]
Has(obj, k) == \E i \in DOMAIN obj : obj[i].k = k
Get(obj, k) ==
    IF Has(obj, k) THEN obj[CHOOSE i \in DOMAIN obj : obj[i].k = k].v ELSE Undef

\* Objects (with distinct keys) over the keys ks, taking the value of key k
\* from vals[k], in every key order and for every subset of ks.
RECURSIVE ObjectsOver(_, _)
ObjectsOver(ks, vals) ==
    {<<>>} \cup
    UNION { { <<Entry(k, v)>> \o rest : v \in vals[k], rest \in ObjectsOver(ks \ {k}, vals) }
            : k \in ks }

\* ------------------------------------------------------------- SQL text

Lit(text) == [k |-> "lit", s |-> text, n |-> 0]
Col(name) == [k |-> "col", s |-> name, n |-> 0]
Ph(i) == [k |-> "ph", s |-> "", n |-> i]

\* Array.prototype.join: the parts with sep between them.
RECURSIVE Join(_, _)
Join(parts, sep) ==
    IF parts = <<>> THEN <<>>
    ELSE IF Len(parts) = 1 THEN parts[1]
    ELSE parts[1] \o <<sep>> \o Join(Tail(parts), sep)

\* The placeholder numbers of a statement, in the order they appear.
RECURSIVE Placeholders(_)
Placeholders(sql) ==
    IF sql = <<>> THEN <<>>
    ELSE (IF sql[1].k = "ph" THEN <<sql[1].n>> ELSE <<>>) \o Placeholders(Tail(sql))

\* ------------------------------------------------------ helpers/sql.js

\* ColumnFor without the fallback on the mapping: always the field's name.
ColumnForOwnName(jsToSql, colName) == colName

\* The storage column of a field: the mapped column when the mapping has the
\* field, the field's own name otherwise.  jsToSql is an object whose values
\* are column names.
ColumnFor(jsToSql, colName) ==
    IF Has(jsToSql, colName)
    THEN jsToSql[CHOOSE i \in DOMAIN jsToSql : jsToSql[i].k = colName].v
    ELSE colName

\* sqlForPartialUpdate numbering its placeholders by the array index, from 0.
sqlForPartialUpdateFromZero(dataToUpdate, jsToSql) ==
    LET keys == Keys(dataToUpdate)
        cols == [i \in DOMAIN keys |->
                    <<Col(ColumnFor(jsToSql, keys[i])), Lit("="), Ph(i - 1)>>]
    IN  IF Len(keys) = 0
        THEN [err |-> "BadRequestError", setCols |-> <<>>, values |-> <<>>]
        ELSE [err |-> "none", setCols |-> Join(cols, Lit(", ")),
              values |-> Values(dataToUpdate)]

\* sqlForPartialUpdate(dataToUpdate, jsToSql): { setCols, values }, or a
\* BadRequestError when dataToUpdate has no keys.
sqlForPartialUpdate(dataToUpdate, jsToSql) ==
    LET keys == Keys(dataToUpdate)
        cols == [i \in DOMAIN keys |->
                    <<Col(ColumnFor(jsToSql, keys[i])), Lit("="), Ph(i)>>]
    IN  IF Len(keys) = 0
        THEN [err |-> "BadRequestError", setCols |-> <<>>, values |-> <<>>]
        ELSE [err |-> "none", setCols |-> Join(cols, Lit(", ")),
              values |-> Values(dataToUpdate)]

\* ------------------------------------------------------- the jobs table

\* A row of jobs: title, salary, equity, company_handle (JavaScript values;
\* equity is counted in tenths).  The table is the sequence of its rows: a
\* row is known by its place, so two equal rows can coexist.
Row(title, salary, equity, companyHandle) ==
    [title |-> title, salary |-> salary, equity |-> equity,
     companyHandle |-> companyHandle]

Columns == {"title", "salary", "equity", "company_handle"}

\* The field of a row that holds a column.
FieldOf(column) == IF column = "company_handle" THEN "companyHandle" ELSE column

\* lower(c) for the characters the model uses.
Lower(c) ==
    CASE c = "E" -> "e"
      [] c = "N" -> "n"
      [] OTHER -> c

\* s LIKE p, case-insensitively: % matches any run of characters, _ any one.
RECURSIVE ILike(_, _)
ILike(s, p) ==
    IF p = <<>> THEN s = <<>>
    ELSE IF p[1] = "%" THEN ILike(s, Tail(p)) \/ (s # <<>> /\ ILike(Tail(s), p))
    ELSE /\ s # <<>>
         /\ (p[1] = "_" \/ Lower(p[1]) = Lower(s[1]))
         /\ ILike(Tail(s), Tail(p))

\* Comparisons of a column with a parameter; a comparison with NULL (or with a
\* value of another type) is not true.
SqlEq(a, b) == a.t \notin {"null", "undefined"} /\ a = b
SqlGe(a, b) == a.t = "number" /\ b.t = "number" /\ a.n >= b.n
SqlILike(a, b) == a.t = "string" /\ b.t = "string" /\ ILike(a.s, b.s)

\* Whether the predicates of the statement's WHERE clause all hold of a row.
\* A predicate is a literal naming the comparison, followed by its
\* placeholder when it has one.
Matches(sql, params, row) ==
    \A i \in DOMAIN sql :
        /\ sql[i] = Lit("title ILIKE ") => SqlILike(row.title, params[sql[i + 1].n])
        /\ sql[i] = Lit("title = ") => SqlEq(row.title, params[sql[i + 1].n])
        /\ sql[i] = Lit("company_handle = ")
              => SqlEq(row.companyHandle, params[sql[i + 1].n])
        /\ sql[i] = Lit("salary >= ") => SqlGe(row.salary, params[sql[i + 1].n])
        /\ sql[i] = Lit("equity > 0") => (row.equity.t = "number" /\ row.equity.n > 0)

\* The store refuses a statement whose placeholders are not $1..$n for the n
\* parameters it was sent with, or that assigns a column jobs does not have.
Bindable(sql, params) ==
    /\ {Placeholders(sql)[i] : i \in DOMAIN Placeholders(sql)} = 1..Len(params)
    /\ \A i \in DOMAIN sql : sql[i].k = "col" => sql[i].s \in Columns

\* The row after the assignments "col"=$i of an UPDATE's SET clause.
Assigned(sql, params, row) ==
    [f \in DOMAIN row |->
        IF \E i \in DOMAIN sql : sql[i].k = "col" /\ FieldOf(sql[i].s) = f
        THEN params[sql[(CHOOSE i \in DOMAIN sql :
                            sql[i].k = "col" /\ FieldOf(sql[i].s) = f) + 2].n]
        ELSE row[f]]

\* The order of ORDER BY title: characters by code point, a string before its
\* extensions, anything that is no string last.
CharRank(c) ==
    CASE c = "E" -> 1
      [] c = "N" -> 2
      [] c = "e" -> 3
      [] c = "j" -> 4
      [] c = "n" -> 5
      [] OTHER -> 6

RECURSIVE CharsLeq(_, _)
CharsLeq(a, b) ==
    IF a = <<>> THEN TRUE
    ELSE IF b = <<>> THEN FALSE
    ELSE IF CharRank(a[1]) # CharRank(b[1]) THEN CharRank(a[1]) < CharRank(b[1])
    ELSE CharsLeq(Tail(a), Tail(b))

TitleLeq(a, b) ==
    IF b.t # "string" THEN TRUE
    ELSE IF a.t # "string" THEN FALSE
    ELSE CharsLeq(a.s, b.s)

\* The places of the table whose rows the statement's WHERE clause selects.
Selected(sql, params, table) ==
    {i \in DOMAIN table : Matches(sql, params, table[i])}

\* The results a SELECT ... ORDER BY title may return: the selected rows in
\* every order that is sorted by title (rows of equal title come in any
\* order).
OrderedByTitle(table, places) ==
    LET n == Cardinality(places)
    IN  { [i \in 1..n |-> table[order[i]]] :
            order \in { o \in [1..n -> places] :
                          /\ \A i, j \in 1..n : i # j => o[i] # o[j]
                          /\ \A i \in 1..n : i < n =>
                                TitleLeq(table[o[i]].title, table[o[i + 1]].title) } }

\* The rows an UPDATE or DELETE ... RETURNING may return: the affected rows,
\* in any order.
InAnyOrder(rows, places) ==
    LET n == Cardinality(places)
    IN  { [i \in 1..n |-> rows[order[i]]] :
            order \in { o \in [1..n -> places] :
                          \A i, j \in 1..n : i # j => o[i] # o[j] } }

\* db.query(sql, params) for a SELECT: the rows it may return, or the store's
\* error for a statement it cannot bind.
QuerySelect(sql, params, table) ==
    IF ~Bindable(sql, params)
    THEN {[err |-> "DbError", rows |-> <<>>, jobs |-> table]}
    ELSE {[err |-> "none", rows |-> r, jobs |-> table] :
            r \in OrderedByTitle(table, Selected(sql, params, table))}

\* db.query(sql, params) for UPDATE jobs SET ... WHERE ... RETURNING.
QueryUpdate(sql, params, table) ==
    IF ~Bindable(sql, params)
    THEN {[err |-> "DbError", rows |-> <<>>, jobs |-> table]}
    ELSE LET hit == Selected(sql, params, table)
             after == [i \in DOMAIN table |->
                          IF i \in hit THEN Assigned(sql, params, table[i])
                          ELSE table[i]]
         IN  {[err |-> "none", rows |-> r, jobs |-> after] : r \in InAnyOrder(after, hit)}

\* db.query(sql, params) for DELETE FROM jobs WHERE ... RETURNING.
QueryDelete(sql, params, table) ==
    IF ~Bindable(sql, params)
    THEN {[err |-> "DbError", rows |-> <<>>, jobs |-> table]}
    ELSE LET hit == Selected(sql, params, table)
             keep(row) == ~Matches(sql, params, row)
         IN  {[err |-> "none", rows |-> r, jobs |-> SelectSeq(table, keep)] :
                r \in InAnyOrder(table, hit)}

\* db.query(sql, params) for INSERT INTO jobs ... VALUES ($1, $2, $3, $4)
\* RETURNING.  The statements of models/job.js name no key of the table, and
\* the model gives it none: the INSERT adds its row whatever the table holds.
QueryInsert(sql, params, table) ==
    IF ~Bindable(sql, params)
    THEN {[err |-> "DbError", rows |-> <<>>, jobs |-> table]}
    ELSE LET row == Row(params[1], params[2], params[3], params[4])
         IN  {[err |-> "none", rows |-> <<row>>, jobs |-> Append(table, row)]}

\* ------------------------------------------------------- models/job.js

Returning ==
    Lit(" RETURNING title, salary, equity, company_handle AS \"companyHandle\"")

\* What a call of a Job method comes to: the statement it sent last (<<>>
\* when it sent none) with its parameters, the error it threw ("none" when it
\* returned), the rows it returned and the table afterwards.
Outcome(sqlSent, paramsSent, errThrown, rowsReturned, table) ==
    [sql |-> sqlSent, params |-> paramsSent, err |-> errThrown,
     ret |-> rowsReturned, jobs |-> table]

\* `%${title}%`, of a title that is a string.
Wrapped(title) == Str(<<"%">> \o title.s \o <<"%">>)

\* The filter builder's working state: queryValues and whereClauses.
NoClauses == [queryValues |-> <<>>, whereClauses |-> <<>>]

\* if (title) { queryValues.push(`%${title}%`);
\*              whereClauses.push(`title ILIKE $${queryValues.length}`); }
AddTitle(b, title) ==
    IF Truthy(title)
    THEN LET qv == Append(b.queryValues, Wrapped(title))
         IN  [queryValues |-> qv,
              whereClauses |->
                  Append(b.whereClauses, <<Lit("title ILIKE "), Ph(Len(qv))>>)]
    ELSE b

\* AddMinSalary testing if (minSalary): a minimum of 0 adds nothing.
AddMinSalaryIfTruthy(b, minSalary) ==
    IF Truthy(minSalary)
    THEN LET qv == Append(b.queryValues, minSalary)
         IN  [queryValues |-> qv,
              whereClauses |->
                  Append(b.whereClauses, <<Lit("salary >= "), Ph(Len(qv))>>)]
    ELSE b

\* AddMinSalary numbering its placeholder before the push.
AddMinSalaryNumberedEarly(b, minSalary) ==
    IF minSalary # Undef
    THEN [queryValues |-> Append(b.queryValues, minSalary),
          whereClauses |->
              Append(b.whereClauses, <<Lit("salary >= "), Ph(Len(b.queryValues))>>)]
    ELSE b

\* if (minSalary !== undefined) { queryValues.push(minSalary);
\*              whereClauses.push(`salary >= $${queryValues.length}`); }
AddMinSalary(b, minSalary) ==
    IF minSalary # Undef
    THEN LET qv == Append(b.queryValues, minSalary)
         IN  [queryValues |-> qv,
              whereClauses |->
                  Append(b.whereClauses, <<Lit("salary >= "), Ph(Len(qv))>>)]
    ELSE b

\* AddHasEquity testing if (hasEquity !== undefined): false filters too.
AddHasEquityIfDefined(b, hasEquity) ==
    IF hasEquity # Undef
    THEN [b EXCEPT !.whereClauses = Append(@, <<Lit("equity > 0")>>)]
    ELSE b

\* if (hasEquity === true) { whereClauses.push(`equity > 0`); }
AddHasEquity(b, hasEquity) ==
    IF hasEquity = Bool(TRUE)
    THEN [b EXCEPT !.whereClauses = Append(@, <<Lit("equity > 0")>>)]
    ELSE b

SelectJobs ==
    Lit("SELECT title, salary, equity, company_handle AS \"companyHandle\" FROM jobs")

\* FindAllQuery testing whereClauses.length >= 0: a WHERE with no predicate.
FindAllQueryAlwaysWhere(whereClauses) ==
    <<SelectJobs>>
    \o <<Lit(" WHERE ")>> \o Join(whereClauses, Lit(" AND "))
    \o <<Lit(" ORDER BY title")>>

\* FindAllQuery that orders first: the WHERE clause, when there is one,
\* comes after ORDER BY title.
FindAllQueryOrderFirst(whereClauses) ==
    <<SelectJobs>>
    \o <<Lit(" ORDER BY title")>>
    \o (IF Len(whereClauses) > 0
        THEN <<Lit(" WHERE ")>> \o Join(whereClauses, Lit(" AND "))
        ELSE <<>>)

\* The statement of findAll: the SELECT, the WHERE clause when there are
\* predicates, the ordering.
FindAllQuery(whereClauses) ==
    <<SelectJobs>>
    \o (IF Len(whereClauses) > 0
        THEN <<Lit(" WHERE ")>> \o Join(whereClauses, Lit(" AND "))
        ELSE <<>>)
    \o <<Lit(" ORDER BY title")>>

\* Job.findAll({ title, minSalary, hasEquity } = {}): args is the argument
\* list of the call, empty when findAll is called with no argument.
findAll(args, table) ==
    LET filters == IF Len(args) = 0 THEN <<>> ELSE args[1]
        b == AddHasEquity(
                 AddMinSalary(AddTitle(NoClauses, Get(filters, "title")),
                              Get(filters, "minSalary")),
                 Get(filters, "hasEquity"))
        query == FindAllQuery(b.whereClauses)
    IN  { Outcome(query, b.queryValues, r.err, r.rows, r.jobs) :
            r \in QuerySelect(query, b.queryValues, table) }

\* Job.get(title)
get(title, table) ==
    LET query == <<SelectJobs, Lit(" WHERE "), Lit("title = "), Ph(1)>>
    IN  { IF r.err # "none" THEN Outcome(query, <<title>>, r.err, <<>>, r.jobs)
          ELSE IF r.rows = <<>>
          THEN Outcome(query, <<title>>, "NotFoundError", <<>>, r.jobs)
          ELSE Outcome(query, <<title>>, "none", <<r.rows[1]>>, r.jobs) :
            r \in QuerySelect(query, <<title>>, table) }

\* The column mapping Job.update hands to sqlForPartialUpdate.
JobColumns == <<Entry("companyHandle", "company_handle")>>

\* Job.update that writes the whole record: a field its data does not name is
\* set to null.
updateWholeRecord(title, data, table) ==
    LET whole == [i \in 1..4 |->
                    LET k == <<"title", "salary", "equity", "companyHandle">>[i]
                    IN  Entry(k, IF Has(data, k) THEN Get(data, k) ELSE Null)]
        built == sqlForPartialUpdate(IF data = <<>> THEN data ELSE whole, JobColumns)
        titleVarIdx == Ph(Len(built.values) + 1)
        querySql == <<Lit("UPDATE jobs SET ")>> \o built.setCols
                    \o <<Lit(" WHERE "), Lit("title = "), titleVarIdx, Returning>>
        sent == built.values \o <<title>>
    IN  IF built.err # "none"
        THEN {Outcome(<<>>, <<>>, built.err, <<>>, table)}
        ELSE { IF r.err # "none" THEN Outcome(querySql, sent, r.err, <<>>, r.jobs)
               ELSE IF r.rows = <<>>
               THEN Outcome(querySql, sent, "NotFoundError", <<>>, r.jobs)
               ELSE Outcome(querySql, sent, "none", <<r.rows[1]>>, r.jobs) :
                 r \in QueryUpdate(querySql, sent, table) }

\* Job.update that does not let the builder's error through: it sends its
\* statement whatever the builder answered.
updateSendsAnyway(title, data, table) ==
    LET built == sqlForPartialUpdate(data, JobColumns)
        titleVarIdx == Ph(Len(built.values) + 1)
        querySql == <<Lit("UPDATE jobs SET ")>> \o built.setCols
                    \o <<Lit(" WHERE "), Lit("title = "), titleVarIdx, Returning>>
        sent == built.values \o <<title>>
    IN  { IF r.err # "none" THEN Outcome(querySql, sent, r.err, <<>>, r.jobs)
          ELSE IF r.rows = <<>>
          THEN Outcome(querySql, sent, "NotFoundError", <<>>, r.jobs)
          ELSE Outcome(querySql, sent, "none", <<r.rows[1]>>, r.jobs) :
            r \in QueryUpdate(querySql, sent, table) }

\* Job.update that numbers its key "$" + values.length: the placeholder of
\* the last assignment, again.
updateKeyNumberedEarly(title, data, table) ==
    LET built == sqlForPartialUpdate(data, JobColumns)
        titleVarIdx == Ph(Len(built.values))
        querySql == <<Lit("UPDATE jobs SET ")>> \o built.setCols
                    \o <<Lit(" WHERE "), Lit("title = "), titleVarIdx, Returning>>
        sent == built.values \o <<title>>
    IN  IF built.err # "none"
        THEN {Outcome(<<>>, <<>>, built.err, <<>>, table)}
        ELSE { IF r.err # "none" THEN Outcome(querySql, sent, r.err, <<>>, r.jobs)
               ELSE IF r.rows = <<>>
               THEN Outcome(querySql, sent, "NotFoundError", <<>>, r.jobs)
               ELSE Outcome(querySql, sent, "none", <<r.rows[1]>>, r.jobs) :
                 r \in QueryUpdate(querySql, sent, table) }

\* Job.update(title, data)
update(title, data, table) ==
    LET built == sqlForPartialUpdate(data, JobColumns)
        titleVarIdx == Ph(Len(built.values) + 1)
        querySql == <<Lit("UPDATE jobs SET ")>> \o built.setCols
                    \o <<Lit(" WHERE "), Lit("title = "), titleVarIdx, Returning>>
        sent == built.values \o <<title>>
    IN  IF built.err # "none"
        THEN {Outcome(<<>>, <<>>, built.err, <<>>, table)}
        ELSE { IF r.err # "none" THEN Outcome(querySql, sent, r.err, <<>>, r.jobs)
               ELSE IF r.rows = <<>>
               THEN Outcome(querySql, sent, "NotFoundError", <<>>, r.jobs)
               ELSE Outcome(querySql, sent, "none", <<r.rows[1]>>, r.jobs) :
                 r \in QueryUpdate(querySql, sent, table) }

\* Job.remove that does not look at what the DELETE returned: it answers
\* without an error whether or not a row was deleted.
removeNeverThrows(title, table) ==
    LET query == <<Lit("DELETE FROM jobs"), Lit(" WHERE "), Lit("title = "), Ph(1),
                   Lit(" RETURNING title")>>
    IN  { Outcome(query, <<title>>, r.err, <<>>, r.jobs) :
            r \in QueryDelete(query, <<title>>, table) }

\* Job.remove(title)
remove(title, table) ==
    LET query == <<Lit("DELETE FROM jobs"), Lit(" WHERE "), Lit("title = "), Ph(1),
                   Lit(" RETURNING title")>>
    IN  { IF r.err # "none" THEN Outcome(query, <<title>>, r.err, <<>>, r.jobs)
          ELSE IF r.rows = <<>>
          THEN Outcome(query, <<title>>, "NotFoundError", <<>>, r.jobs)
          ELSE Outcome(query, <<title>>, "none", <<>>, r.jobs) :
            r \in QueryDelete(query, <<title>>, table) }

\* Job.create, up to its first await: the duplicate check.
createCheck(data, table) ==
    LET query == <<Lit("SELECT title, company_handle FROM jobs"), Lit(" WHERE "),
                   Lit("title = "), Ph(1), Lit(" AND "), Lit("company_handle = "),
                   Ph(2)>>
        sent == <<Get(data, "title"), Get(data, "companyHandle")>>
    IN  { IF r.err # "none" THEN Outcome(query, sent, r.err, <<>>, r.jobs)
          ELSE IF r.rows # <<>>
          THEN Outcome(query, sent, "BadRequestError", <<>>, r.jobs)
          ELSE Outcome(query, sent, "none", <<>>, r.jobs) :
            r \in QuerySelect(query, sent, table) }

\* Job.create, after the duplicate check found no row: the INSERT.
createInsert(data, table) ==
    LET query == <<Lit("INSERT INTO jobs (title, salary, equity, company_handle) VALUES ("),
                   Ph(1), Lit(", "), Ph(2), Lit(", "), Ph(3), Lit(", "), Ph(4), Lit(")"),
                   Returning>>
        sent == <<Get(data, "title"), Get(data, "salary"), Get(data, "equity"),
                  Get(data, "companyHandle")>>
    IN  { Outcome(query, sent, r.err, r.rows, r.jobs) :
            r \in QueryInsert(query, sent, table) }

\* ------------------------------------------------ routes: GET /jobs, /companies

DigitValue(c) ==
    CASE c = "0" -> 0
      [] c = "1" -> 1
      [] c = "2" -> 2
      [] c = "3" -> 3
      [] c = "4" -> 4
      [] c = "5" -> 5
      [] c = "6" -> 6
      [] c = "7" -> 7
      [] c = "8" -> 8
      [] c = "9" -> 9
      [] OTHER -> -1

RECURSIVE DecimalValue(_)
DecimalValue(cs) ==
    IF cs = <<>> THEN 0
    ELSE 10 * DecimalValue(SubSeq(cs, 1, Len(cs) - 1)) + DigitValue(cs[Len(cs)])

\* Unary + : the number a value converts to.  Of a string of digits its
\* decimal value, of the empty string 0, of any other string of the model NaN.
ToNumber(v) ==
    CASE v.t = "number" -> v
      [] v.t = "NaN" -> NaN
      [] v.t = "undefined" -> NaN
      [] v.t = "null" -> Num(0)
      [] v.t = "boolean" -> Num(v.n)
      [] v.t = "string" ->
            IF \A i \in DOMAIN v.s : DigitValue(v.s[i]) >= 0
            THEN Num(DecimalValue(v.s))
            ELSE NaN
      [] OTHER -> NaN

isNaN(v) == ToNumber(v).t = "NaN"

\* a > b on numbers: false when either is NaN.
Greater(a, b) == a.t = "number" /\ b.t = "number" /\ a.n > b.n

\* Object.keys(filters).filter((key) => !allowedFilters.includes(key))
InvalidFilters(filters, allowedFilters) ==
    SelectSeq(Keys(filters), LAMBDA k : k \notin allowedFilters)

\* What a GET / handler comes to: the error handed to next() ("none" when it
\* answered), and the argument list of its findAll call (<<>> when it made
\* none).
Rejected == [err |-> "BadRequestError", passed |-> <<>>]
Calls(filters) == [err |-> "none", passed |-> <<filters>>]

\* minSalary !== undefined && isNaN(+minSalary)
BadMinSalary(minSalary) == minSalary # Undef /\ isNaN(minSalary)

\* hasEquity !== undefined && !(hasEquity === "true" || hasEquity === "false")
BadHasEquity(hasEquity) ==
    /\ hasEquity # Undef
    /\ ~(hasEquity = Str(<<"t", "r", "u", "e">>) \/ hasEquity = Str(<<"f", "a", "l", "s", "e">>))

\* sanitizedFilters, its keys in the order they are assigned.
SanitizedFilters(title, minSalary, hasEquity) ==
    (IF Truthy(title) THEN <<Entry("title", title)>> ELSE <<>>)
    \o (IF minSalary # Undef THEN <<Entry("minSalary", ToNumber(minSalary))>> ELSE <<>>)
    \o (IF hasEquity = Str(<<"t", "r", "u", "e">>)
        THEN <<Entry("hasEquity", Bool(TRUE))>> ELSE <<>>)

\* router.get("/") of routes/jobs.js, up to its call of Job.findAll.  req.query
\* is always an object and never an array, so the handler's first test never
\* rejects.
getJobs(query) ==
    LET title == Get(query, "title")
        minSalary == Get(query, "minSalary")
        hasEquity == Get(query, "hasEquity")
    IN  IF Len(InvalidFilters(query, {"title", "minSalary", "hasEquity"})) > 0
        THEN Rejected
        ELSE IF BadMinSalary(minSalary) THEN Rejected
        ELSE IF BadHasEquity(hasEquity) THEN Rejected
        ELSE Calls(SanitizedFilters(title, minSalary, hasEquity))

\* minEmployees !== undefined && maxEmployees !== undefined
\*   && +minEmployees > +maxEmployees
BadEmployeesRange(minEmployees, maxEmployees) ==
    /\ minEmployees # Undef
    /\ maxEmployees # Undef
    /\ Greater(ToNumber(minEmployees), ToNumber(maxEmployees))

\* The argument of Company.findAll: name, minEmployees, maxEmployees.
CompanyFilters(nameLike, minEmployees, maxEmployees) ==
    <<Entry("name", nameLike),
      Entry("minEmployees", IF minEmployees # Undef THEN ToNumber(minEmployees) ELSE Undef),
      Entry("maxEmployees", IF maxEmployees # Undef THEN ToNumber(maxEmployees) ELSE Undef)>>

\* router.get("/") of routes/companies.js, up to its call of Company.findAll.
getCompanies(query) ==
    LET minEmployees == Get(query, "minEmployees")
        maxEmployees == Get(query, "maxEmployees")
    IN  IF Len(InvalidFilters(query, {"nameLike", "minEmployees", "maxEmployees"})) > 0
        THEN Rejected
        ELSE IF BadEmployeesRange(minEmployees, maxEmployees) THEN Rejected
        ELSE Calls(CompanyFilters(Get(query, "nameLike"), minEmployees, maxEmployees))

\* ------------------------------------------------------------- inputs

TitleEN == Str(<<"E", "N">>)
TitleJ == Str(<<"j">>)
\* A title no row ever holds.
TitleNope == Str(<<"n", "o">>)
Titles == {TitleEN, TitleJ}
HandleC1 == Str(<<"c", "1">>)
HandleC2 == Str(<<"c", "2">>)

Digits == <<"0", "1", "2", "3", "4", "5", "6", "7", "8", "9">>
\* The decimal numeral of a number below ten, as a query string carries it.
Numeral(i) == Str(<<Digits[i + 1]>>)

NewJob(title, salary, equity, companyHandle) ==
    <<Entry("title", title), Entry("salary", salary), Entry("equity", equity),
      Entry("companyHandle", companyHandle)>>

\* The jobs the clients create.
NewJobs ==
    {NewJob(TitleJ, Num(1), Num(0), HandleC1), NewJob(TitleEN, Num(2), Num(5), HandleC1)}

\* The jobs the clients create when only Job.create is called: the two
\* titles at each of the two companies.
NewJobsOfTwo ==
    NewJobs \cup {NewJob(TitleJ, Num(0), Null, HandleC2),
                  NewJob(TitleEN, Num(2), Num(5), HandleC2)}

\* The data of the updates on the table.
UpdateData ==
    { <<>>,
      <<Entry("salary", Null), Entry("equity", Null)>>,
      <<Entry("companyHandle", HandleC2), Entry("salary", Num(0))>>,
      <<Entry("title", TitleEN)>> }

\* The argument lists of the findAll calls on the table.
FindAllArgs ==
    { <<>>,
      << <<>> >>,
      << <<Entry("title", Str(<<"e", "n">>))>> >>,
      << <<Entry("minSalary", Num(1)), Entry("title", Str(<<"n">>))>> >>,
      << <<Entry("hasEquity", Bool(TRUE)), Entry("minSalary", Num(0))>> >>,
      << <<Entry("hasEquity", Bool(FALSE))>> >> }

\* The column mappings the builder is called with.
Mappings ==
    { <<>>,
      JobColumns,
      <<Entry("salary", "pay"), Entry("firstName", "first_name")>> }

\* The field sets the builder is called with: every subset of the four
\* fields, in every order.
FieldSets ==
    ObjectsOver({"title", "salary", "equity", "companyHandle"},
                [title |-> {TitleEN}, salary |-> {Null, Num(MaxNum)},
                 equity |-> {Null}, companyHandle |-> {HandleC2}])

\* The filter records findAll is called with: every subset of the three
\* keys, in every order.
FilterRecords ==
    ObjectsOver({"title", "minSalary", "hasEquity"},
                [title |-> {Str(<<>>), Str(<<"e", "n">>), Str(<<"j">>)},
                 minSalary |-> {Undef} \cup {Num(i) : i \in 0..MaxNum},
                 hasEquity |-> {Bool(TRUE), Bool(FALSE)}])

\* Objects over the keys of ks, each key present or not, in the order of ks.
RECURSIVE ObjectsInOrder(_, _)
ObjectsInOrder(ks, vals) ==
    IF ks = <<>> THEN {<<>>}
    ELSE LET rest == ObjectsInOrder(Tail(ks), vals)
         IN  rest \cup { <<Entry(ks[1], v)>> \o r : v \in vals[ks[1]], r \in rest }

\* The strings a numeric query parameter is sent as: numerals, the empty
\* string, a word.
NumericStrings == {Numeral(i) : i \in 0..MaxNum} \cup {Str(<<>>), Str(<<"x">>)}

\* req.query of GET /jobs.
JobQueries ==
    ObjectsInOrder(<<"title", "minSalary", "hasEquity", "sortBy">>,
                   [title |-> {Str(<<>>), Str(<<"e", "n">>)},
                    minSalary |-> NumericStrings,
                    hasEquity |-> {Str(<<"t", "r", "u", "e">>),
                                   Str(<<"f", "a", "l", "s", "e">>),
                                   Str(<<"y", "e", "s">>)},
                    sortBy |-> {Str(<<"x">>)}])

\* The strings an employee bound is sent as: numerals, a word.
EmployeeStrings == {Numeral(i) : i \in 0..MaxNum} \cup {Str(<<"x">>)}

\* req.query of GET /companies.
CompanyQueries ==
    ObjectsInOrder(<<"nameLike", "minEmployees", "maxEmployees", "sortBy">>,
                   [nameLike |-> {Str(<<"e", "n">>)},
                    minEmployees |-> EmployeeStrings,
                    maxEmployees |-> EmployeeStrings,
                    sortBy |-> {Str(<<"x">>)}])

\* The table the builders' statements are run on when only they are checked.
Fixture ==
    <<Row(TitleJ, Num(1), Num(0), HandleC1), Row(TitleEN, Num(2), Num(5), HandleC2)>>

Clients == {"A", "B"}

\* -------------------------------------------------------------- state

VARIABLES
    jobs,       \* the jobs table
    creating,   \* per client: the Job.create call in flight, if any
    op,         \* the method or handler that ran last
    key,        \* its title argument
    input,      \* its other arguments: objects
    jsToSql,    \* the column mapping it built with
    sql,        \* the statement it built or sent last, <<>> when none
    params,     \* the parameters of that statement
    ret,        \* the rows it returned
    err,        \* the error it threw, "none" when it returned
    passed      \* a route's argument list for findAll, <<>> when it made no call

vars == <<jobs, creating, op, key, input, jsToSql, sql, params, ret, err, passed>>

Idle == [pc |-> "idle", data |-> <<>>]

Init ==
    /\ jobs = <<>>
    /\ creating = [c \in Clients |-> Idle]
    /\ op = "none"
    /\ key = Undef
    /\ input = <<>>
    /\ jsToSql = <<>>
    /\ sql = <<>>
    /\ params = <<>>
    /\ ret = <<>>
    /\ err = "none"
    /\ passed = <<>>

\* The registers after a call of a Job method that came to o, made directly
\* (handed == <<>>) or by a route that handed it the arguments handed.
Record(name, title, args, handed, o) ==
    /\ op' = name
    /\ passed' = handed
    /\ key' = title
    /\ input' = args
    /\ jsToSql' = IF name = "update" THEN JobColumns ELSE <<>>
    /\ sql' = o.sql
    /\ params' = o.params
    /\ ret' = o.ret
    /\ err' = o.err
    /\ jobs' = o.jobs

\* sqlForPartialUpdate(dataToUpdate, mapping)
Build(dataToUpdate, mapping) ==
    LET built == sqlForPartialUpdate(dataToUpdate, mapping)
    IN  /\ op' = "sqlForPartialUpdate"
        /\ key' = Undef
        /\ input' = <<dataToUpdate>>
        /\ jsToSql' = mapping
        /\ sql' = built.setCols
        /\ params' = built.values
        /\ ret' = <<>>
        /\ err' = built.err
        /\ passed' = <<>>
        /\ UNCHANGED <<jobs, creating>>

\* Job.findAll(...args)
JobFindAll(args) ==
    /\ \E o \in findAll(args, jobs) : Record("findAll", Undef, args, <<>>, o)
    /\ UNCHANGED creating

\* Job.get(title)
JobGet(title) ==
    /\ \E o \in get(title, jobs) : Record("get", title, <<>>, <<>>, o)
    /\ UNCHANGED creating

\* Job.update(title, data)
JobUpdate(title, data) ==
    /\ \E o \in update(title, data, jobs) : Record("update", title, <<data>>, <<>>, o)
    /\ UNCHANGED creating

\* Job.remove(title)
JobRemove(title) ==
    /\ \E o \in remove(title, jobs) : Record("remove", title, <<>>, <<>>, o)
    /\ UNCHANGED creating

\* Job.create(data) by client c, to the answer of its duplicate check.  The
\* table has room for the row of every create past its check.
JobCreateCheck(c, data) ==
    /\ creating[c].pc = "idle"
    /\ Len(jobs) + Cardinality({d \in Clients : creating[d].pc = "insert"}) < MaxJobs
    /\ \E o \in createCheck(data, jobs) :
          /\ Record("create", Undef, <<data>>, <<>>, o)
          /\ creating' = [creating EXCEPT ![c] =
                             IF o.err = "none" THEN [pc |-> "insert", data |-> data]
                             ELSE Idle]

\* Job.create by client c, from the answer of its duplicate check on.
JobCreateInsert(c) ==
    /\ creating[c].pc = "insert"
    /\ \E o \in createInsert(creating[c].data, jobs) :
          Record("create", Undef, <<creating[c].data>>, <<>>, o)
    /\ creating' = [creating EXCEPT ![c] = Idle]

\* GET /jobs
GetJobs(query) ==
    LET r == getJobs(query)
    IN  /\ IF r.err = "none"
           THEN \E o \in findAll(r.passed, jobs) :
                    Record("GET /jobs", Undef, <<query>>, r.passed, o)
           ELSE Record("GET /jobs", Undef, <<query>>, r.passed,
                       Outcome(<<>>, <<>>, r.err, <<>>, jobs))
        /\ UNCHANGED creating

\* GET /companies; Company.findAll is outside this model, its argument is
\* what the handler passes.
GetCompanies(query) ==
    LET r == getCompanies(query)
    IN  /\ Record("GET /companies", Undef, <<query>>, r.passed,
                  Outcome(<<>>, <<>>, r.err, <<>>, jobs))
        /\ UNCHANGED creating

\* The Job model on its table.
Next ==
    \/ \E c \in Clients, data \in NewJobs : JobCreateCheck(c, data)
    \/ \E c \in Clients : JobCreateInsert(c)
    \/ \E args \in FindAllArgs : JobFindAll(args)
    \/ \E title \in Titles \cup {TitleNope} : JobGet(title)
    \/ \E title \in Titles \cup {TitleNope}, data \in UpdateData : JobUpdate(title, data)
    \/ \E title \in Titles \cup {TitleNope} : JobRemove(title)
    \/ \E data \in UpdateData, mapping \in Mappings : Build(data, mapping)

Spec == Init /\ [][Next]_vars

\* Job.create alone, called by clients whose calls interleave at the await
\* of the duplicate check.
NextCreate ==
    \/ \E c \in Clients, data \in NewJobsOfTwo : JobCreateCheck(c, data)
    \/ \E c \in Clients : JobCreateInsert(c)

SpecCreate == Init /\ [][NextCreate]_vars

\* The builders and the routes, on a fixed table.
InitBuild ==
    /\ jobs = Fixture
    /\ creating = [c \in Clients |-> Idle]
    /\ op = "none"
    /\ key = Undef
    /\ input = <<>>
    /\ jsToSql = <<>>
    /\ sql = <<>>
    /\ params = <<>>
    /\ ret = <<>>
    /\ err = "none"
    /\ passed = <<>>

NextBuild ==
    \/ \E data \in FieldSets, mapping \in Mappings : Build(data, mapping)
    \/ \E filters \in FilterRecords : JobFindAll(<<filters>>)
    \/ JobFindAll(<<>>)
    \/ \E query \in JobQueries : GetJobs(query)
    \/ \E query \in CompanyQueries : GetCompanies(query)

SpecBuild == InitBuild /\ [][NextBuild]_vars

\* ------------------------------------------------------------ properties

\* 1, 2, ..., n
UpTo(n) == [i \in 1..n |-> i]

\* The quoted columns of a statement, in the order they appear.
RECURSIVE QuotedColumns(_)
QuotedColumns(text) ==
    IF text = <<>> THEN <<>>
    ELSE (IF text[1].k = "col" THEN <<text[1].s>> ELSE <<>>) \o QuotedColumns(Tail(text))

\* C1: for a non-empty field set F and any mapping, sqlForPartialUpdate
\* returns a fragment whose placeholders are $1..$|F| in that order, one per
\* field, and values[i] is the value of the i-th entry of F, null included.
C1_PlaceholdersAndValuesFollowFields ==
    (op = "sqlForPartialUpdate" /\ input[1] # <<>>) =>
        /\ err = "none"
        /\ Placeholders(sql) = UpTo(Len(input[1]))
        /\ Len(QuotedColumns(sql)) = Len(input[1])
        /\ Len(params) = Len(input[1])
        /\ \A i \in DOMAIN input[1] : params[i] = input[1][i].v

\* C1's case: three fields, salary before title, two of them null.
C1_Witness ==
    /\ op = "sqlForPartialUpdate"
    /\ Len(input[1]) = 3
    /\ input[1][1].k = "salary"
    /\ input[1][2].k = "title"
    /\ params = <<Null, TitleEN, Null>>
    /\ Placeholders(sql) = <<1, 2, 3>>

\* C2: the i-th quoted column is the mapping's column for the i-th field when
\* the mapping has that field, and the field's own name otherwise; with the
\* empty mapping every quoted column is the field's name.
C2_ColumnIsMappedOrOwnName ==
    op = "sqlForPartialUpdate" /\ err = "none" =>
        /\ Len(QuotedColumns(sql)) = Len(input[1])
        /\ \A i \in DOMAIN input[1] :
              /\ \A j \in DOMAIN jsToSql :
                    jsToSql[j].k = input[1][i].k => QuotedColumns(sql)[i] = jsToSql[j].v
              /\ (\A j \in DOMAIN jsToSql : jsToSql[j].k # input[1][i].k)
                    => QuotedColumns(sql)[i] = input[1][i].k
        /\ jsToSql = <<>> => QuotedColumns(sql) = Keys(input[1])

\* C2's case: a mapped field beside an unmapped one.
C2_Witness ==
    /\ op = "sqlForPartialUpdate"
    /\ jsToSql = JobColumns
    /\ QuotedColumns(sql) = <<"title", "company_handle">>

\* C3: sqlForPartialUpdate of the empty field set throws BadRequestError
\* whatever the mapping, and Job.update with empty data throws
\* BadRequestError for every title with no statement sent to the store.
C3_EmptyDataIsBadRequest ==
    /\ (op = "sqlForPartialUpdate" /\ input[1] = <<>>) => err = "BadRequestError"
    /\ (op = "update" /\ input[1] = <<>>) =>
          (err = "BadRequestError" /\ sql = <<>> /\ params = <<>>)

\* C3's case: Job.update with empty data on a title the table holds.
C3_Witness ==
    /\ op = "update"
    /\ input[1] = <<>>
    /\ \E i \in DOMAIN jobs : jobs[i].title = key
    /\ err = "BadRequestError"

\* The filter record of a findAll call: the empty record when it was called
\* with no argument.
FiltersOf(args) == IF Len(args) = 0 THEN <<>> ELSE args[1]

\* The statement and parameters the filter contract asks for when title,
\* minSalary and hasEquity each contribute (withTitle, withMinSalary,
\* withEquity) or not: the predicates in the order title, minSalary,
\* hasEquity, joined with AND.
ContractPredicates(withTitle, withMinSalary, withEquity) ==
    (IF withTitle THEN << <<Lit("title ILIKE "), Ph(1)>> >> ELSE <<>>)
    \o (IF withMinSalary
        THEN << <<Lit("salary >= "), Ph(IF withTitle THEN 2 ELSE 1)>> >> ELSE <<>>)
    \o (IF withEquity THEN << <<Lit("equity > 0")>> >> ELSE <<>>)

ContractParameters(withTitle, withMinSalary, filters) ==
    (IF withTitle THEN <<Str(<<"%">> \o Get(filters, "title").s \o <<"%">>)>> ELSE <<>>)
    \o (IF withMinSalary THEN <<Get(filters, "minSalary")>> ELSE <<>>)

\* The text between the SELECT and the ordering: nothing, or WHERE and the
\* predicates with AND between them.
WherePart(text) == SubSeq(text, 2, Len(text) - 1)

ContractWhere(predicates) ==
    IF predicates = <<>> THEN <<>>
    ELSE <<Lit(" WHERE ")>> \o Join(predicates, Lit(" AND "))

\* C4 as stated: every key that is present in the filter record (its value
\* is not undefined) contributes its predicate (hasEquity when it is true),
\* in the order title, minSalary, hasEquity.
C4_EveryPresentKeyContributes ==
    op = "findAll" =>
        LET f == FiltersOf(input)
            withTitle == Get(f, "title") # Undef
            withMinSalary == Get(f, "minSalary") # Undef
            withEquity == Get(f, "hasEquity") = Bool(TRUE)
        IN  /\ WherePart(sql)
                 = ContractWhere(ContractPredicates(withTitle, withMinSalary, withEquity))
            /\ params = ContractParameters(withTitle, withMinSalary, f)

\* C4, amended: a title that is a non-empty string, a minSalary that is not
\* undefined (0 included) and a hasEquity that is true each contribute exactly
\* one predicate, and nothing else does; the predicates come in the order
\* title, minSalary, hasEquity whatever the key order of the record, joined
\* with AND, with parameters `%title%` and minSalary.
C4_EverySetKeyContributes ==
    op = "findAll" =>
        LET f == FiltersOf(input)
            withTitle == Get(f, "title").t = "string" /\ Get(f, "title").s # <<>>
            withMinSalary == Get(f, "minSalary") # Undef
            withEquity == Get(f, "hasEquity") = Bool(TRUE)
        IN  /\ WherePart(sql)
                 = ContractWhere(ContractPredicates(withTitle, withMinSalary, withEquity))
            /\ params = ContractParameters(withTitle, withMinSalary, f)

\* C4's case: minSalary 2 given before title 'en'; the parameters are
\* ['%en%', 2].
C4_Witness ==
    /\ op = "findAll"
    /\ input = << <<Entry("minSalary", Num(2)), Entry("title", Str(<<"e", "n">>))>> >>
    /\ params = <<Str(<<"%", "e", "n", "%">>), Num(2)>>
    /\ WherePart(sql) = <<Lit(" WHERE "), Lit("title ILIKE "), Ph(1), Lit(" AND "),
                          Lit("salary >= "), Ph(2)>>

\* C5: the statement findAll builds has as many placeholders as queryValues
\* has entries, numbered $1..$n in order with no gap or repeat, and the
\* placeholder of each predicate refers to that predicate's value.
C5_PlaceholdersMatchQueryValues ==
    op = "findAll" =>
        /\ Placeholders(sql) = UpTo(Len(params))
        /\ \A i \in DOMAIN sql :
              /\ sql[i] = Lit("title ILIKE ") =>
                    /\ sql[i + 1].n \in DOMAIN params
                    /\ params[sql[i + 1].n]
                         = Str(<<"%">> \o Get(FiltersOf(input), "title").s \o <<"%">>)
              /\ sql[i] = Lit("salary >= ") =>
                    /\ sql[i + 1].n \in DOMAIN params
                    /\ params[sql[i + 1].n] = Get(FiltersOf(input), "minSalary")

\* C5's case: all three keys, so hasEquity adds a predicate and no parameter.
C5_Witness ==
    /\ op = "findAll"
    /\ Has(FiltersOf(input), "title")
    /\ Has(FiltersOf(input), "minSalary")
    /\ \E i \in DOMAIN sql : sql[i] = Lit("equity > 0")
    /\ Len(params) = 2
    /\ Placeholders(sql) = <<1, 2>>

\* ret holds every row of the table once.
ReturnsEveryJob ==
    /\ Len(ret) = Len(jobs)
    /\ \E order \in [DOMAIN jobs -> DOMAIN jobs] :
          /\ \A i, j \in DOMAIN jobs : i # j => order[i] # order[j]
          /\ \A i \in DOMAIN jobs : ret[i] = jobs[order[i]]

\* C6: with none of title, minSalary, hasEquity in the filter record, or no
\* argument at all, findAll sends the SELECT with no WHERE clause and no
\* parameter, and returns every job of the table.
C6_NoFilterReturnsEveryJob ==
    (/\ op = "findAll"
     /\ \A k \in {"title", "minSalary", "hasEquity"} : ~Has(FiltersOf(input), k)) =>
        /\ sql = <<SelectJobs, Lit(" ORDER BY title")>>
        /\ params = <<>>
        /\ err = "none"
        /\ ReturnsEveryJob

\* C6's case: findAll() with no argument on a table of two jobs.
C6_Witness ==
    /\ op = "findAll"
    /\ input = <<>>
    /\ Len(jobs) = 2
    /\ Len(ret) = 2
    /\ ret[1].title # ret[2].title

\* An object without the entry of key k.
Without(obj, k) == SelectSeq(obj, LAMBDA e : e.k # k)

\* C7: findAll with hasEquity false builds the statement and parameters it
\* builds with hasEquity left out, GET /jobs?hasEquity=false hands findAll
\* the filter record it hands it without hasEquity, and equity > 0 is in the
\* statement exactly when hasEquity is true.
C7_FalseEquityIsNoEquity ==
    /\ op = "findAll" =>
          LET f == FiltersOf(input)
          IN  /\ Get(f, "hasEquity") = Bool(FALSE) =>
                    \E o \in findAll(<<Without(f, "hasEquity")>>, jobs) :
                        o.sql = sql /\ o.params = params /\ o.ret = ret
              /\ (\E i \in DOMAIN sql : sql[i] = Lit("equity > 0"))
                    <=> Get(f, "hasEquity") = Bool(TRUE)
    /\ op = "GET /jobs" =>
          LET q == input[1]
          IN  /\ Get(q, "hasEquity") = Str(<<"f", "a", "l", "s", "e">>) =>
                    /\ passed = getJobs(Without(q, "hasEquity")).passed
                    /\ err = getJobs(Without(q, "hasEquity")).err
              /\ (\E i \in DOMAIN sql : sql[i] = Lit("equity > 0"))
                    <=> (err = "none" /\ Get(q, "hasEquity") = Str(<<"t", "r", "u", "e">>))

\* C7's case: GET /jobs?minSalary=1&hasEquity=false reaches findAll with
\* minSalary alone.
C7_Witness ==
    /\ op = "GET /jobs"
    /\ Get(input[1], "hasEquity") = Str(<<"f", "a", "l", "s", "e">>)
    /\ passed = << <<Entry("minSalary", Num(1))>> >>
    /\ Placeholders(sql) = <<1>>

\* The fields of a row that the data of an update names.
Named(data) == {k \in {"title", "salary", "equity", "companyHandle"} : Has(data, k)}

\* C8: a Job.update that finds its job leaves every row of another title as it
\* was, and in the rows of its title every field its data does not name; no
\* row is added or dropped.
C8_UpdateChangesOnlyNamedFields ==
    [][(op' = "update" /\ err' = "none") =>
          /\ Len(jobs') = Len(jobs)
          /\ \A i \in DOMAIN jobs :
                /\ jobs[i].title # key' => jobs'[i] = jobs[i]
                /\ \A f \in DOMAIN jobs[i] \ Named(input'[1]) : jobs'[i][f] = jobs[i][f]]_vars

\* C8's case: update('j', {companyHandle, salary}) has set both on the row of
\* j, whose equity is as created, beside a row of another title.
C8_Witness ==
    /\ op = "update"
    /\ err = "none"
    /\ key = TitleJ
    /\ input = << <<Entry("companyHandle", HandleC2), Entry("salary", Num(0))>> >>
    /\ jobs = <<Row(TitleJ, Num(0), Num(0), HandleC2), Row(TitleEN, Num(2), Num(5), HandleC1)>>

\* A string that is a decimal numeral.
IsNumeral(v) ==
    v.t = "string" /\ v.s # <<>> /\ \A i \in DOMAIN v.s : v.s[i] \in {Digits[d] : d \in DOMAIN Digits}

\* C9: a query with a key outside the allowed list makes GET /jobs and
\* GET /companies fail with BadRequestError with no call of findAll, and so
\* does, for GET /jobs, a minSalary that is no number and a hasEquity that is
\* neither 'true' nor 'false'.
C9_OnlyValidatedFiltersReachFindAll ==
    /\ (/\ op = "GET /jobs"
        /\ \E i \in DOMAIN input[1] : input[1][i].k \notin {"title", "minSalary", "hasEquity"})
          => (err = "BadRequestError" /\ passed = <<>>)
    /\ (/\ op = "GET /companies"
        /\ \E i \in DOMAIN input[1] :
              input[1][i].k \notin {"nameLike", "minEmployees", "maxEmployees"})
          => (err = "BadRequestError" /\ passed = <<>>)
    /\ (/\ op = "GET /jobs"
        /\ Has(input[1], "minSalary")
        /\ ~IsNumeral(Get(input[1], "minSalary")))
          => (err = "BadRequestError" /\ passed = <<>>)
    /\ (/\ op = "GET /jobs"
        /\ Has(input[1], "hasEquity")
        /\ Get(input[1], "hasEquity")
             \notin {Str(<<"t", "r", "u", "e">>), Str(<<"f", "a", "l", "s", "e">>)})
          => (err = "BadRequestError" /\ passed = <<>>)

\* C10: what GET /companies hands Company.findAll as minEmployees and
\* maxEmployees is a number (or undefined for a bound not given), with
\* minEmployees <= maxEmployees when both are given; a query with a bound that
\* is no number is rejected with BadRequestError and no call.
C10_CompanyBoundsAreNumbers ==
    op = "GET /companies" =>
        /\ passed # <<>> =>
              /\ \A k \in {"minEmployees", "maxEmployees"} :
                    Get(passed[1], k).t \in {"number", "undefined"}
              /\ (Get(passed[1], "minEmployees").t = "number"
                   /\ Get(passed[1], "maxEmployees").t = "number")
                    => Get(passed[1], "minEmployees").n <= Get(passed[1], "maxEmployees").n
        /\ (\E k \in {"minEmployees", "maxEmployees"} :
                Has(input[1], k) /\ ~IsNumeral(Get(input[1], k)))
              => (err = "BadRequestError" /\ passed = <<>>)

\* The table has a job of this title.
HasTitle(table, title) == \E i \in DOMAIN table : table[i].title = title

\* C11: Job.get, Job.update with data that is not empty, and Job.remove raise
\* NotFoundError exactly when the table holds no job of the given title, and
\* the table is then as it was; when a job of the title is there, Job.remove
\* leaves no job of that title in the table.
C11_NotFoundExactlyWhenNoSuchTitle ==
    [][((op' \in {"get", "remove"}) \/ (op' = "update" /\ input'[1] # <<>>)) =>
          /\ (err' = "NotFoundError") <=> ~HasTitle(jobs, key')
          /\ err' = "NotFoundError" => jobs' = jobs
          /\ (op' = "remove" /\ HasTitle(jobs, key')) => ~HasTitle(jobs', key')]_vars

\* Job.remove found no job of its title in a table that holds other jobs, and
\* raised NotFoundError.
C11_Witness ==
    /\ op = "remove"
    /\ err = "NotFoundError"
    /\ key = TitleNope
    /\ Len(jobs) = 2

\* C12: the statement of Job.update with data of n > 0 fields ends its WHERE
\* clause with title = $(n+1) and the title is the last of its parameters; the
\* statement has the n+1 placeholders $1..$(n+1) in that order, the assignment
\* of the i-th field keeps the placeholder $i, and parameter i is the value of
\* the i-th field for i <= n and the title for i = n+1.
C12_UpdateKeyIsLastPlaceholder ==
    (op = "update" /\ input[1] # <<>>) =>
        LET data == input[1]
            n == Len(data)
        IN  /\ Placeholders(sql) = UpTo(n + 1)
            /\ Len(sql) = 4 * n + 4
            /\ SubSeq(sql, Len(sql) - 3, Len(sql) - 1)
                  = <<Lit(" WHERE "), Lit("title = "), Ph(n + 1)>>
            /\ \A i \in 1..n :
                  /\ sql[4 * i - 2].k = "col"
                  /\ FieldOf(sql[4 * i - 2].s) = data[i].k
                  /\ sql[4 * i] = Ph(i)
                  /\ params[i] = data[i].v
            /\ Len(params) = n + 1
            /\ params[n + 1] = key

\* C12's case: an update of two fields, the mapped one first, whose title is
\* the third parameter; it changed a job.
C12_Witness ==
    /\ op = "update"
    /\ err = "none"
    /\ Len(input[1]) = 2
    /\ input[1][1].k = "companyHandle"
    /\ params = <<HandleC2, Num(0), TitleJ>>
    /\ ret # <<>>

\* The places of a statement that hold the token tok.
PlacesOf(text, tok) == {i \in DOMAIN text : text[i] = tok}

\* C13: every statement Job.findAll builds, whatever the filters, has
\* " ORDER BY title" once, as its last part and so after the WHERE clause when
\* there is one; the ordering brings no placeholder and no parameter: the
\* placeholders all come before it and the parameters are the values of the
\* title and minSalary predicates.
C13_OrderByTitleComesLast ==
    ((op = "findAll") \/ (op = "GET /jobs" /\ err = "none")) =>
        LET whereAt == PlacesOf(sql, Lit(" WHERE "))
            orderAt == PlacesOf(sql, Lit(" ORDER BY title"))
            before == SubSeq(sql, 1, Len(sql) - 1)
        IN  /\ orderAt = {Len(sql)}
            /\ \A i \in whereAt : i < Len(sql) - 1
            /\ Cardinality(whereAt) <= 1
            /\ Placeholders(before) = UpTo(Len(params))
            /\ Len(params) = Cardinality(PlacesOf(sql, Lit("title ILIKE ")))
                              + Cardinality(PlacesOf(sql, Lit("salary >= ")))

\* C13's cases: a statement with a WHERE clause of three predicates and two
\* parameters, ordered.
C13_Witness ==
    /\ op = "findAll"
    /\ PlacesOf(sql, Lit(" WHERE ")) = {2}
    /\ PlacesOf(sql, Lit(" AND ")) # {}
    /\ PlacesOf(sql, Lit("equity > 0")) # {}
    /\ sql[Len(sql)] = Lit(" ORDER BY title")
    /\ Len(params) = 2
    /\ Len(ret) = 1

\* The table has a job of the title and company handle of data.
HasJobOf(table, data) ==
    \E i \in DOMAIN table :
        /\ table[i].title = Get(data, "title")
        /\ table[i].companyHandle = Get(data, "companyHandle")

\* No two jobs of the table have the same title and company handle.
NoTwoAlike(table) ==
    \A i, j \in DOMAIN table :
        (/\ table[i].title = table[j].title
         /\ table[i].companyHandle = table[j].companyHandle) => i = j

\* C14: a step of Job.create taken while the table holds a job of the same
\* title and companyHandle throws BadRequestError and leaves the table as it
\* was, and so after any steps of Job.create calls, interleaved or not, the
\* table holds no two jobs of the same title and companyHandle.
C14_CreatesNeverDuplicate ==
    [][op' = "create" =>
          /\ HasJobOf(jobs, input'[1]) => (err' = "BadRequestError" /\ jobs' = jobs)
          /\ NoTwoAlike(jobs')]_vars
====
